---- MODULE Spec2Model ----
(***************************************************************************)
(* A model of git-auto-commit.py: the heuristic commit-message synthesizer *)
(* (categorize_changes, analyze_changes), the remote adapter               *)
(* (generate_ai_commit_message), the policy layer                          *)
(* (generate_commit_message) and one run of main.                          *)
(*                                                                         *)
(* Python str values are TLA+ strings; Len, \o and SubSeq are the only     *)
(* string primitives used.  An optional str (a value that may be None) is  *)
(* a record [isNone, val].                                                 *)
(*                                                                         *)
(* Not modelled: get_file_changes (never called), most_changed_category    *)
(* (computed and never read), the text of the prompt sent to the remote    *)
(* service, and the content of the configuration file setup_config writes. *)
(***************************************************************************)
EXTENDS Integers, Sequences, FiniteSets, TLC

\* ------------------------------------------------------------------ bounds

\* Largest number of entries of a ChangeSet handed to analyze_changes (SpecAnalyze).
MaxFiles == 3
\* Largest number of lines of the staged diff summary in a run of main (Spec).
MaxLines == 2
\* max_length is drawn from 1..MaxLength and the default.
MaxLength == 4

\* get_config: 'max_length': 72
DefaultMaxLength == 72

\* ------------------------------------------------------------ Python str

None == [isNone |-> TRUE, val |-> ""]
Str(s) == [isNone |-> FALSE, val |-> s]

\* s[i] for a 1-based index.
Char(s, i) == SubSeq(s, i, i)

\* s[:k] with Python's slice semantics: a negative k counts from the end,
\* and both ends are clamped to the string.
SliceTo(s, k) ==
    LET n == Len(s)
        stop == IF k >= 0 THEN (IF k > n THEN n ELSE k)
                          ELSE (IF n + k < 0 THEN 0 ELSE n + k)
    IN SubSeq(s, 1, stop)

\* s[k:] for 0 <= k.
SliceFrom(s, k) == SubSeq(s, k + 1, Len(s))

IsSpace(c) == c \in {" ", "\t", "\n", "\r"}

RECURSIVE lstrip(_)
lstrip(s) ==
    IF Len(s) > 0 /\ IsSpace(Char(s, 1)) THEN lstrip(SliceFrom(s, 1)) ELSE s

RECURSIVE rstrip(_)
rstrip(s) ==
    IF Len(s) > 0 /\ IsSpace(Char(s, Len(s))) THEN rstrip(SubSeq(s, 1, Len(s) - 1)) ELSE s

\* str.strip()
strip(s) == rstrip(lstrip(s))

Upper == <<"A", "B", "C", "D", "E", "F", "G", "H", "I", "J", "K", "L", "M",
           "N", "O", "P", "Q", "R", "S", "T", "U", "V", "W", "X", "Y", "Z">>
Lower == <<"a", "b", "c", "d", "e", "f", "g", "h", "i", "j", "k", "l", "m",
           "n", "o", "p", "q", "r", "s", "t", "u", "v", "w", "x", "y", "z">>

LowerChar(c) ==
    IF \E i \in 1..26 : Upper[i] = c
    THEN Lower[CHOOSE i \in 1..26 : Upper[i] = c]
    ELSE c

\* str.lower()
RECURSIVE lower(_)
lower(s) ==
    IF Len(s) = 0 THEN "" ELSE LowerChar(Char(s, 1)) \o lower(SliceFrom(s, 1))

Digits == <<"0", "1", "2", "3", "4", "5", "6", "7", "8", "9">>

\* str(n) (the f-string conversion of a non-negative int).
RECURSIVE IntToStr(_)
IntToStr(n) ==
    IF n < 10 THEN Digits[n + 1] ELSE IntToStr(n \div 10) \o Digits[(n % 10) + 1]

\* str.rfind(c): the 1-based index of the last c in s, 0 when there is none.
RECURSIVE rfind(_, _)
rfind(s, c) ==
    IF Len(s) = 0 THEN 0
    ELSE IF Char(s, Len(s)) = c THEN Len(s)
    ELSE rfind(SubSeq(s, 1, Len(s) - 1), c)

\* os.path.basename(p): everything after the last "/".
basename(p) == SliceFrom(p, rfind(p, "/"))

\* os.path.splitext(p)[1]: the suffix from the last "." of the final
\* component, unless only dots precede it in that component.
splitext_ext(p) ==
    LET sep == rfind(p, "/")
        dot == rfind(p, ".")
    IN IF dot > sep /\ \E i \in (sep + 1)..(dot - 1) : Char(p, i) # "."
       THEN SubSeq(p, dot, Len(p))
       ELSE ""

\* str.lstrip('.')
RECURSIVE lstrip_dots(_)
lstrip_dots(s) ==
    IF Len(s) > 0 /\ Char(s, 1) = "." THEN lstrip_dots(SliceFrom(s, 1)) ELSE s

\* str.split(sep) for a one-character sep.
RECURSIVE split(_, _)
split(s, sep) ==
    LET i == CHOOSE k \in 1..(Len(s) + 1) :
                 /\ (k = Len(s) + 1 \/ Char(s, k) = sep)
                 /\ \A j \in 1..(k - 1) : Char(s, j) # sep
    IN IF i = Len(s) + 1 THEN <<s>>
       ELSE <<SubSeq(s, 1, i - 1)>> \o split(SliceFrom(s, i), sep)

\* '\n'.join(lines)
RECURSIVE join_lines(_)
join_lines(lines) ==
    IF Len(lines) = 0 THEN ""
    ELSE IF Len(lines) = 1 THEN lines[1]
    ELSE lines[1] \o "\n" \o join_lines(Tail(lines))

\* The elements of a finite set of integers in increasing order.
RECURSIVE SortedSeq(_)
SortedSeq(S) ==
    IF S = {} THEN <<>>
    ELSE LET m == CHOOSE x \in S : \A y \in S : x <= y
         IN <<m>> \o SortedSeq(S \ {m})

\* ------------------------------------------------------------------ state

VARIABLES
    pc,               \* where the run is: a position in main, or in analyze_changes
    OPENAI_AVAILABLE, \* module global set by the optional import
    config,           \* the config dict of main
    staged_diff,      \* repo.git.diff('--cached', '--name-status'), None before the call
    staged_files,     \* list of [status, path] returned by get_staged_files
    analysis,         \* locals primary_action and scope of analyze_changes
    heuristic,        \* return value of analyze_changes (optional str)
    ai_message,       \* return value of generate_ai_commit_message (optional str)
    synthesized,      \* synthesizer output before prefixing, with its source
    prefixed,         \* local `message` after the prefix step, before truncation
    commit_message,   \* return value of generate_commit_message (optional str)
    confirm,          \* local `confirm` of main: the answer, stripped and lowered
    edited,           \* what the operator typed at "Enter your commit message: "
    commits,          \* messages handed to repo.git.commit('-m', ...), in order
    calls,            \* functions of the module entered so far in this run
    out,              \* notices printed so far
    exit_code         \* process exit status, -1 while running

vars == <<pc, OPENAI_AVAILABLE, config, staged_diff, staged_files, analysis, heuristic,
          ai_message, synthesized, prefixed, commit_message, confirm, edited, commits,
          calls, out, exit_code>>

\* ------------------------------------------------------ categorize_changes

\* The keys of `categories`.
KnownStatuses == {"A", "M", "D", "R", "C"}

\* ext of one path as categorize_changes computes it.
ExtOf(path) == lstrip_dots(splitext_ext(path))

CountStatus(files, s) == Cardinality({i \in DOMAIN files : files[i].status = s})

categorize_changes(files) ==
    LET exts == {ExtOf(files[i].path) : i \in DOMAIN files} \ {""}
    IN [categories |->
            [s \in KnownStatuses |->
                [count |-> CountStatus(files, s),
                 files |-> LET sel == SelectSeq(files, LAMBDA f : f.status = s)
                           IN [i \in DOMAIN sel |-> sel[i].path]]],
        extensions |->
            [e \in exts |-> Cardinality({i \in DOMAIN files : ExtOf(files[i].path) = e})]]

\* --------------------------------------------------------- analyze_changes

RECURSIVE SumCounts(_, _)
SumCounts(categories, S) ==
    IF S = {} THEN 0
    ELSE LET s == CHOOSE x \in S : TRUE
         IN categories[s].count + SumCounts(categories, S \ {s})

\* sum(c['count'] for s, c in categories.items() if s != status)
OtherCount(categories, status) == SumCounts(categories, DOMAIN categories \ {status})

\* sum(c['count'] for c in categories.values())
FileCount(categories) == SumCounts(categories, DOMAIN categories)

PrimaryAction(categories) ==
    IF categories["A"].count > 0 /\ categories["A"].count >= OtherCount(categories, "A")
    THEN Str("Add")
    ELSE IF categories["M"].count > 0 /\ categories["M"].count >= OtherCount(categories, "M")
    THEN Str("Update")
    ELSE IF categories["D"].count > 0 /\ categories["D"].count >= OtherCount(categories, "D")
    THEN Str("Remove")
    ELSE None

ScopeOfExt(ext) ==
    IF ext \in {"js", "ts"} THEN Str("JavaScript")
    ELSE IF ext \in {"py"} THEN Str("Python")
    ELSE IF ext \in {"css", "scss"} THEN Str("styles")
    ELSE IF ext \in {"html"} THEN Str("HTML")
    ELSE IF ext \in {"md", "txt"} THEN Str("documentation")
    ELSE IF ext \in {"json", "yaml", "yml", "toml"} THEN Str("configuration")
    ELSE None

Scope(extensions) ==
    IF Cardinality(DOMAIN extensions) = 1
    THEN ScopeOfExt(CHOOSE e \in DOMAIN extensions : TRUE)
    ELSE None

NoAnalysis == [primary_action |-> None, scope |-> None]

\* The multi-file part of analyze_changes (from "Multiple files changed" on):
\* [ret, primary_action, scope].
MultiFileMessage(files) ==
    LET cat == categorize_changes(files)
        primary_action == PrimaryAction(cat.categories)
        scope == Scope(cat.extensions)
    IN [primary_action |-> primary_action,
        scope |-> scope,
        ret |-> IF ~primary_action.isNone /\ ~scope.isNone
                THEN primary_action.val \o " " \o scope.val \o " files"
                ELSE IF ~primary_action.isNone
                THEN primary_action.val \o " " \o IntToStr(FileCount(cat.categories))
                         \o " files"
                ELSE "Update " \o IntToStr(FileCount(cat.categories)) \o " files"]

\* The statuses the single-file branch returns for.
SingleFileStatuses == {"A", "M", "D", "R"}

\* Faulty variant: the multi-file verb for a deleted
\* file in the single-file branch.
SingleFileMessage_Remove(f) ==
    LET file_name == basename(f.path)
    IN IF f.status = "A" THEN "Add " \o file_name
       ELSE IF f.status = "M" THEN "Update " \o file_name
       ELSE IF f.status = "D" THEN "Remove " \o file_name
       ELSE "Rename file to " \o file_name

SingleFileMessage(f) ==
    LET file_name == basename(f.path)
    IN IF f.status = "A" THEN "Add " \o file_name
       ELSE IF f.status = "M" THEN "Update " \o file_name
       ELSE IF f.status = "D" THEN "Delete " \o file_name
       ELSE "Rename file to " \o file_name

analyze_changes(files) ==
    IF Len(files) = 1 /\ files[1].status \in SingleFileStatuses
    THEN [primary_action |-> None, scope |-> None, ret |-> SingleFileMessage(files[1])]
    ELSE MultiFileMessage(files)

\* ---------------------------------------------- generate_ai_commit_message

\* message[:max_length - 3] + "..." when the message is too long.
Truncate(message, max_length) ==
    IF Len(message) > max_length
    THEN SliceTo(message, max_length - 3) \o "..."
    ELSE message

\* What the collaborators of the remote path do in one call: get_full_diff
\* (raises, or returns a text that may be empty), openai.OpenAI(...) (raises
\* or not), client.chat.completions.create (raises, or returns a response
\* whose content is a str or, malformed, None).
RemoteContents == {None, Str(" \n"), Str("fix: x\n"), Str(" Tidy up ")}

NoEnv == [diff_raises |-> FALSE, diff_empty |-> FALSE, client_raises |-> FALSE,
          request_raises |-> FALSE, content |-> None]

\* One record per way the calls can go; a call after the one that stopped
\* the adapter is not made and so has no outcome of its own.
RemoteEnvs ==
    {[NoEnv EXCEPT !.diff_raises = TRUE],
     [NoEnv EXCEPT !.diff_empty = TRUE],
     [NoEnv EXCEPT !.client_raises = TRUE],
     [NoEnv EXCEPT !.request_raises = TRUE]}
    \cup {[NoEnv EXCEPT !.content = c] : c \in RemoteContents}

NoticeNoPackage == "OpenAI package not installed."
NoticeNoKey == "OpenAI API key not configured."
NoticeRemoteError == "Error generating AI commit message"
NoticeFallback == "Falling back to rule-based commit message generation..."

\* Faulty variant: the prefix step of the remote path
\* without its test of conventional_commits.
RemotePrefix_IgnoresStyle(cfg, message) ==
    IF cfg.prefix # "" THEN cfg.prefix \o " " \o message ELSE message

\* "Apply prefix if configured and not using conventional commits"
RemotePrefix(cfg, message) ==
    IF cfg.prefix # "" /\ ~cfg.conventional_commits
    THEN cfg.prefix \o " " \o message
    ELSE message

\* [raised, ret, synthesized, prefixed, out]: whether an exception left the
\* function, its return value, the stripped response, the message after the
\* prefix step, and the notices printed.  The prompt built from the diff
\* (cut to 4000 characters) only reaches the remote service and is not kept.
generate_ai_commit_message(cfg, available, env) ==
    LET absent(notices) ==
            [raised |-> FALSE, ret |-> None, synthesized |-> None,
             prefixed |-> None, out |-> notices]
        raise ==
            [raised |-> TRUE, ret |-> None, synthesized |-> None,
             prefixed |-> None, out |-> <<>>]
    IN IF ~available THEN absent(<<NoticeNoPackage>>)
       ELSE IF cfg.openai_api_key = "" THEN absent(<<NoticeNoKey>>)
       ELSE IF env.diff_raises THEN raise
       ELSE IF env.diff_empty THEN absent(<<>>)
       ELSE IF env.client_raises THEN raise
       ELSE IF env.request_raises \/ env.content.isNone THEN absent(<<NoticeRemoteError>>)
       ELSE LET message == strip(env.content.val)
                with_prefix == RemotePrefix(cfg, message)
            IN [raised |-> FALSE,
                ret |-> Str(Truncate(with_prefix, cfg.max_length)),
                synthesized |-> Str(message),
                prefixed |-> Str(with_prefix),
                out |-> <<>>]

\* ------------------------------------------------- generate_commit_message

NoSynth == [isNone |-> TRUE, source |-> "", text |-> ""]
Synth(source, text) == [isNone |-> FALSE, source |-> source, text |-> text]

\* "Apply prefix if configured"
HeuristicPrefix(cfg, message) ==
    IF cfg.prefix # "" THEN cfg.prefix \o " " \o message ELSE message

\* The rule-based part of generate_commit_message (from analyze_changes on).
RuleBased(files, cfg, ai, notices, entered) ==
    LET analysed == analyze_changes(files)
        message == analysed.ret
        with_prefix == HeuristicPrefix(cfg, message)
    IN [raised |-> FALSE,
        ret |-> Str(Truncate(with_prefix, cfg.max_length)),
        ai |-> ai,
        analysis |-> [primary_action |-> analysed.primary_action, scope |-> analysed.scope],
        heuristic |-> Str(message),
        synthesized |-> Synth("heuristic", message),
        prefixed |-> Str(with_prefix),
        out |-> notices,
        calls |-> entered \cup {"analyze_changes", "categorize_changes"}]

generate_commit_message(files, cfg, available, env) ==
    IF cfg.use_ai
    THEN LET ai == generate_ai_commit_message(cfg, available, env)
             entered == {"generate_commit_message", "generate_ai_commit_message"}
         IN IF ai.raised
            THEN [raised |-> TRUE, ret |-> None, ai |-> None, analysis |-> NoAnalysis,
                  heuristic |-> None,
                  synthesized |-> NoSynth, prefixed |-> None, out |-> ai.out,
                  calls |-> entered]
            ELSE IF ~ai.ret.isNone /\ ai.ret.val # ""
            THEN [raised |-> FALSE, ret |-> ai.ret, ai |-> ai.ret, analysis |-> NoAnalysis,
                  heuristic |-> None,
                  synthesized |-> Synth("remote", ai.synthesized.val),
                  prefixed |-> ai.prefixed, out |-> ai.out, calls |-> entered]
            ELSE RuleBased(files, cfg, ai.ret, ai.out \o <<NoticeFallback>>, entered)
    ELSE RuleBased(files, cfg, None, <<>>, {"generate_commit_message"})

\* -------------------------------------------------------------- get_config

DefaultModel == "gpt-3.5-turbo"

MaxLengths == (1..MaxLength) \cup {DefaultMaxLength}

\* The [autocommit] section as configparser reads it.  A missing file or
\* option leaves the default, which is the value these sets also contain.
\* max_length is the positive integer int() parses.
ConfigFiles ==
    [prefix : {"", "feat:"},
     prefixes : {"", "fix:, docs:"},
     max_length : MaxLengths,
     use_ai : BOOLEAN,
     openai_api_key : {"", "sk-1"},
     conventional_commits : BOOLEAN]

\* os.environ.get('OPENAI_API_KEY')
Environs == {None, Str("sk-1")}

get_config(file, environ) ==
    [prefix |-> file.prefix,
     prefixes |-> IF file.prefixes # ""
                  THEN LET parts == split(file.prefixes, ",")
                       IN [i \in DOMAIN parts |-> strip(parts[i])]
                  ELSE <<>>,
     max_length |-> file.max_length,
     use_ai |-> file.use_ai,
     openai_api_key |-> IF ~environ.isNone THEN environ.val ELSE file.openai_api_key,
     openai_model |-> DefaultModel,
     conventional_commits |-> file.conventional_commits]

\* ------------------------------------------------------- get_staged_files

IsWord(c) ==
    \/ \E i \in 1..26 : c = Upper[i] \/ c = Lower[i]
    \/ \E i \in 1..10 : c = Digits[i]
    \/ c = "_"

\* re.match(r'(\w)\s+(.*)', line): None when the line does not start with
\* one word character followed by whitespace.
MatchLine(line) ==
    IF Len(line) >= 2 /\ IsWord(Char(line, 1)) /\ IsSpace(Char(line, 2))
    THEN [isNone |-> FALSE, status |-> Char(line, 1), path |-> lstrip(SliceFrom(line, 1))]
    ELSE [isNone |-> TRUE, status |-> "", path |-> ""]

\* Faulty variant: get_staged_files without its test
\* for an empty summary.
get_staged_files_NoEmptyCheck(diff) ==
    LET lines == SelectSeq(split(diff, "\n"), LAMBDA l : l # "")
    IN IF \E i \in DOMAIN lines : MatchLine(lines[i]).isNone
       THEN [exits |-> FALSE, raised |-> TRUE, files |-> <<>>]
       ELSE [exits |-> FALSE, raised |-> FALSE,
             files |-> [i \in DOMAIN lines |->
                           [status |-> MatchLine(lines[i]).status,
                            path |-> MatchLine(lines[i]).path]]]

\* [exits, raised, files]: sys.exit(1) on an empty summary, AttributeError
\* on a line the pattern does not match, else the list of (status, path).
get_staged_files(diff) ==
    LET lines == SelectSeq(split(diff, "\n"), LAMBDA l : l # "")
    IN IF diff = ""
       THEN [exits |-> TRUE, raised |-> FALSE, files |-> <<>>]
       ELSE IF \E i \in DOMAIN lines : MatchLine(lines[i]).isNone
       THEN [exits |-> FALSE, raised |-> TRUE, files |-> <<>>]
       ELSE [exits |-> FALSE, raised |-> FALSE,
             files |-> [i \in DOMAIN lines |->
                           [status |-> MatchLine(lines[i]).status,
                            path |-> MatchLine(lines[i]).path]]]

\* Lines `git diff --cached --name-status` prints, in path order: one per
\* staged path, a rename carrying its similarity score and both paths.
NameStatusLines ==
    <<"A\tREADME", "M\ta.PY", "R100\told.py\tnew.py", "T\tsrc/x.py", "D\tz.js">>

\* The summaries git can print for at most MaxLines staged paths.
StagedDiffs ==
    {join_lines([i \in DOMAIN SortedSeq(S) |-> NameStatusLines[SortedSeq(S)[i]]]) :
        S \in {T \in SUBSET DOMAIN NameStatusLines : Cardinality(T) <= MaxLines}}

\* --------------------------------------------------------------------- main

Args == [setup : BOOLEAN, use_ai : BOOLEAN, conventional : BOOLEAN,
         no_prefix_selection : BOOLEAN]

NoConfig ==
    [prefix |-> "", prefixes |-> <<>>, max_length |-> DefaultMaxLength, use_ai |-> FALSE,
     openai_api_key |-> "", openai_model |-> DefaultModel, conventional_commits |-> FALSE]

Init ==
    /\ pc = "start"
    /\ OPENAI_AVAILABLE \in BOOLEAN
    /\ config = NoConfig
    /\ staged_diff = None
    /\ staged_files = <<>>
    /\ analysis = NoAnalysis
    /\ heuristic = None
    /\ ai_message = None
    /\ synthesized = NoSynth
    /\ prefixed = None
    /\ commit_message = None
    /\ confirm = None
    /\ edited = None
    /\ commits = <<>>
    /\ calls = {}
    /\ out = <<>>
    /\ exit_code = -1

\* What generate_commit_message and analyze_changes leave behind.
generated == <<analysis, heuristic, ai_message, synthesized, prefixed, commit_message>>
\* What the confirmation step leaves behind.
answered == <<confirm, edited, commits>>

NoticeNoStaged == "No changes staged for commit."
NoticeAborted == "Commit aborted."

\* print(notice) and the end of the process with this status.
Exit(code, notice) ==
    /\ pc' = "exit"
    /\ exit_code' = code
    /\ out' = Append(out, notice)

\* An exception that no handler catches leaves the function named: the
\* traceback is printed and the process ends with status 1.
Crash(where, notices) ==
    /\ pc' = "crashed"
    /\ exit_code' = 1
    /\ out' = (out \o notices) \o <<"Traceback: " \o where>>

\* get_git_root outside a repository (setup mode or not).
NotARepository ==
    /\ pc = "start"
    /\ Exit(1, "Error: Not a git repository (or any of the parent directories)")
    /\ calls' = calls \cup {"get_git_root"}
    /\ UNCHANGED <<OPENAI_AVAILABLE, config, staged_diff, staged_files, generated, answered>>

\* main with --setup: setup_config, then return.
Setup ==
    /\ pc = "start"
    /\ \E args \in Args, exists \in BOOLEAN :
          /\ args.setup
          /\ Exit(0, IF exists THEN "Configuration file already exists"
                               ELSE "Created configuration file")
    /\ calls' = calls \cup {"setup_config", "get_git_root"}
    /\ UNCHANGED <<OPENAI_AVAILABLE, config, staged_diff, staged_files, generated, answered>>

\* config after get_config and the command-line overrides --use-ai and
\* --conventional.
EffectiveConfig(args, file, environ) ==
    LET c == get_config(file, environ)
    IN [c EXCEPT !.use_ai = c.use_ai \/ args.use_ai,
                 !.conventional_commits = c.conventional_commits \/ args.conventional]

\* Every config a run without --setup can start from.
EffectiveConfigs ==
    {EffectiveConfig(args, file, environ) :
        args \in {a \in Args : ~a.setup}, file \in ConfigFiles, environ \in Environs}

\* get_config raises: int() or getboolean() on a value that is neither.
ConfigError ==
    /\ pc = "start"
    /\ Crash("get_config", <<>>)
    /\ calls' = calls \cup {"get_git_root", "get_config"}
    /\ UNCHANGED <<OPENAI_AVAILABLE, config, staged_diff, staged_files, generated, answered>>

\* main from get_git_root to the return of get_staged_files, when the
\* staged diff summary is empty.
NoStagedChanges ==
    /\ pc = "start"
    /\ \E diff \in StagedDiffs :
          /\ get_staged_files(diff).exits
          /\ staged_diff' = Str(diff)
          /\ \E cfg \in EffectiveConfigs : config' = cfg
    /\ Exit(1, NoticeNoStaged)
    /\ calls' = calls \cup {"get_git_root", "get_config", "get_staged_files"}
    /\ UNCHANGED <<OPENAI_AVAILABLE, staged_files, generated, answered>>

\* The same, when a line of the summary does not match the pattern.
MalformedStatusLine ==
    /\ pc = "start"
    /\ \E diff \in StagedDiffs :
          /\ get_staged_files(diff).raised
          /\ staged_diff' = Str(diff)
          /\ \E cfg \in EffectiveConfigs : config' = cfg
    /\ Crash("get_staged_files", <<>>)
    /\ calls' = calls \cup {"get_git_root", "get_config", "get_staged_files"}
    /\ UNCHANGED <<OPENAI_AVAILABLE, staged_files, generated, answered>>

\* The same, when the summary parses: on to prefix selection, or to
\* generation when no prefixes are configured or --no-prefix-selection is given.
Collect ==
    /\ pc = "start"
    /\ \E diff \in StagedDiffs :
          LET got == get_staged_files(diff)
          IN /\ ~got.exits /\ ~got.raised
             /\ staged_diff' = Str(diff)
             /\ staged_files' = got.files
             /\ \E cfg \in EffectiveConfigs, no_prefix_selection \in BOOLEAN :
                   /\ config' = cfg
                   /\ pc' = IF cfg.prefixes # <<>> /\ ~no_prefix_selection
                            THEN "select_prefix" ELSE "generate"
    /\ calls' = calls \cup {"get_git_root", "get_config", "get_staged_files"}
    /\ UNCHANGED <<OPENAI_AVAILABLE, generated, answered, out, exit_code>>

\* What the operator may type at "Enter custom prefix: ".
CustomPrefixes == {" wip ", ""}

\* select_prefix with a valid choice, and config['prefix'] = selected_prefix.
SelectPrefix ==
    /\ pc = "select_prefix"
    /\ \E choice \in 1..(Len(config.prefixes) + 2), custom \in CustomPrefixes :
          config' = [config EXCEPT !.prefix =
                        IF choice <= Len(config.prefixes) THEN config.prefixes[choice]
                        ELSE IF choice = Len(config.prefixes) + 1 THEN ""
                        ELSE strip(custom)]
    /\ pc' = "generate"
    /\ calls' = calls \cup {"select_prefix"}
    /\ UNCHANGED <<OPENAI_AVAILABLE, staged_diff, staged_files, generated, answered,
                   out, exit_code>>

\* select_prefix on an out-of-range number or a non-number: ask again.
SelectPrefixRetry ==
    /\ pc = "select_prefix"
    /\ calls' = calls \cup {"select_prefix"}
    /\ UNCHANGED <<pc, OPENAI_AVAILABLE, config, staged_diff, staged_files, generated,
                   answered, out, exit_code>>

\* generate_commit_message returns; main prints the message and prompts.
Generate ==
    /\ pc = "generate"
    /\ \E env \in RemoteEnvs :
          LET r == generate_commit_message(staged_files, config, OPENAI_AVAILABLE, env)
          IN /\ ~r.raised
             /\ analysis' = r.analysis
             /\ heuristic' = r.heuristic
             /\ ai_message' = r.ai
             /\ synthesized' = r.synthesized
             /\ prefixed' = r.prefixed
             /\ commit_message' = r.ret
             /\ out' = out \o r.out
             /\ calls' = calls \cup r.calls \cup {"confirm_prompt"}
    /\ pc' = "confirm"
    /\ UNCHANGED <<OPENAI_AVAILABLE, config, staged_diff, staged_files, answered, exit_code>>

\* An exception leaves generate_ai_commit_message, generate_commit_message
\* and main.
GenerateRaises ==
    /\ pc = "generate"
    /\ \E env \in RemoteEnvs :
          LET r == generate_commit_message(staged_files, config, OPENAI_AVAILABLE, env)
          IN /\ r.raised
             /\ Crash("generate_ai_commit_message", r.out)
             /\ calls' = calls \cup r.calls
    /\ UNCHANGED <<OPENAI_AVAILABLE, config, staged_diff, staged_files, generated, answered>>

\* What the operator may type at the confirmation prompt and at
\* "Enter your commit message: ".
Answers == {"y", " Y\n", "edit", "n", ""}
EditedMessages == {" Fix typo "}

\* input(...).strip().lower()
Normalize(answer) == lower(strip(answer))

\* confirm == 'y': commit with the generated message.
ConfirmYes ==
    /\ pc = "confirm"
    /\ \E answer \in Answers :
          /\ Normalize(answer) = "y"
          /\ confirm' = Str(Normalize(answer))
    /\ commits' = Append(commits, commit_message.val)
    /\ Exit(0, "Changes committed successfully!")
    /\ calls' = calls \cup {"commit"}
    /\ UNCHANGED <<OPENAI_AVAILABLE, config, staged_diff, staged_files, generated, edited>>

\* Faulty variant: the edit branch committing the
\* generated message instead of the edited one.
ConfirmEdit_CommitsGenerated ==
    /\ pc = "confirm"
    /\ \E answer \in Answers, typed \in EditedMessages :
          /\ Normalize(answer) = "edit"
          /\ confirm' = Str(Normalize(answer))
          /\ edited' = Str(typed)
          /\ commits' = Append(commits, commit_message.val)
    /\ Exit(0, "Changes committed with edited message!")
    /\ calls' = calls \cup {"commit"}
    /\ UNCHANGED <<OPENAI_AVAILABLE, config, staged_diff, staged_files, generated>>

\* confirm == 'edit': commit with the message the operator enters.
ConfirmEdit ==
    /\ pc = "confirm"
    /\ \E answer \in Answers, typed \in EditedMessages :
          /\ Normalize(answer) = "edit"
          /\ confirm' = Str(Normalize(answer))
          /\ edited' = Str(typed)
          /\ commits' = Append(commits, strip(typed))
    /\ Exit(0, "Changes committed with edited message!")
    /\ calls' = calls \cup {"commit"}
    /\ UNCHANGED <<OPENAI_AVAILABLE, config, staged_diff, staged_files, generated>>

\* Any other answer.
ConfirmAbort ==
    /\ pc = "confirm"
    /\ \E answer \in Answers :
          /\ Normalize(answer) \notin {"y", "edit"}
          /\ confirm' = Str(Normalize(answer))
    /\ Exit(0, NoticeAborted)
    /\ UNCHANGED <<OPENAI_AVAILABLE, config, staged_diff, staged_files, generated, edited,
                   commits, calls>>

\* repo.git.commit raises (a hook rejects the commit, for one).
CommitFails ==
    /\ pc = "confirm"
    /\ \E answer \in Answers, typed \in EditedMessages :
          /\ Normalize(answer) \in {"y", "edit"}
          /\ confirm' = Str(Normalize(answer))
          /\ edited' = IF Normalize(answer) = "edit" THEN Str(typed) ELSE edited
          /\ commits' = Append(commits, IF Normalize(answer) = "y"
                                        THEN commit_message.val ELSE strip(typed))
    /\ Crash("commit", <<>>)
    /\ calls' = calls \cup {"commit"}
    /\ UNCHANGED <<OPENAI_AVAILABLE, config, staged_diff, staged_files, generated>>

Next ==
    \/ NotARepository
    \/ Setup
    \/ ConfigError
    \/ NoStagedChanges
    \/ MalformedStatusLine
    \/ Collect
    \/ SelectPrefix
    \/ SelectPrefixRetry
    \/ Generate
    \/ GenerateRaises
    \/ ConfirmYes
    \/ ConfirmEdit
    \/ ConfirmAbort
    \/ CommitFails

Spec == Init /\ [][Next]_vars

\* ------------------------------------------- analyze_changes on its own

\* Paths of a working tree, in the order git lists them.
Paths ==
    <<"Makefile", "a.PY", "b.PY", "c.PY", "docs/guide.md", "src/x.py", "src/y.py",
      "src/z.py">>

\* Status letters of git's name-status output: the five the classifier
\* knows and T (type change), which it does not.
Statuses == {"A", "M", "D", "R", "C", "T"}

\* The ChangeSet of the paths with indices S, with statuses st.
ChangeSetOf(S, st) ==
    LET idx == SortedSeq(S)
    IN [i \in DOMAIN idx |-> [status |-> st[idx[i]], path |-> Paths[idx[i]]]]

InitAnalyze ==
    /\ pc = "analyze_changes"
    /\ \E S \in {T \in SUBSET DOMAIN Paths : T # {} /\ Cardinality(T) <= MaxFiles} :
          \E st \in [S -> Statuses] : staged_files = ChangeSetOf(S, st)
    /\ OPENAI_AVAILABLE = FALSE
    /\ config = NoConfig
    /\ staged_diff = None
    /\ analysis = NoAnalysis
    /\ heuristic = None
    /\ ai_message = None
    /\ synthesized = NoSynth
    /\ prefixed = None
    /\ commit_message = None
    /\ confirm = None
    /\ edited = None
    /\ commits = <<>>
    /\ calls = {}
    /\ out = <<>>
    /\ exit_code = -1

\* One call of analyze_changes(repo, staged_files).
AnalyzeChanges ==
    /\ pc = "analyze_changes"
    /\ LET r == analyze_changes(staged_files)
       IN /\ analysis' = [primary_action |-> r.primary_action, scope |-> r.scope]
          /\ heuristic' = Str(r.ret)
    /\ pc' = "returned"
    /\ calls' = calls \cup {"analyze_changes", "categorize_changes"}
    /\ UNCHANGED <<OPENAI_AVAILABLE, config, staged_diff, staged_files, ai_message,
                   synthesized, prefixed, commit_message, answered, out, exit_code>>

NextAnalyze == AnalyzeChanges

SpecAnalyze == InitAnalyze /\ [][NextAnalyze]_vars

\* ------------------------------------------------------------------ claims

Last(s) == s[Len(s)]

EndsWith(s, suffix) ==
    Len(s) >= Len(suffix) /\ SubSeq(s, Len(s) - Len(suffix) + 1, Len(s)) = suffix

\* generate_commit_message has returned in this run.
Generated == ~commit_message.isNone

\* C1: every message generate_commit_message returns is at most
\* max_length long, for every positive max_length; and when the prefixed
\* text was longer than max_length the message ends with "..." and is
\* exactly max_length long.
C1_LengthLimit ==
    Generated =>
        /\ Len(commit_message.val) <= config.max_length
        /\ Len(prefixed.val) > config.max_length =>
              /\ EndsWith(commit_message.val, "...")
              /\ Len(commit_message.val) = config.max_length

\* C2: no failure of a step of the remote path leaves
\* generate_ai_commit_message as an exception: the run never ends with a
\* traceback out of the adapter.
C2_RemoteFailuresAbsorbed ==
    \A i \in DOMAIN out : out[i] # "Traceback: generate_ai_commit_message"

\* The remote path ended in one of the cases C3 lists as absent: the adapter
\* returned None or an empty text, or the response text was empty.
RemoteAbsent ==
    \/ ai_message.isNone
    \/ ai_message.val = ""
    \/ synthesized.source = "remote" /\ synthesized.text = ""

\* C3: with use_ai true and an absent remote result (the empty response
\* text included), the returned message is the one generate_commit_message
\* returns with use_ai false for the same ChangeSet and StylePolicy.
C3_FallbackIsHeuristic ==
    (Generated /\ config.use_ai /\ RemoteAbsent) =>
        commit_message =
            generate_commit_message(staged_files, [config EXCEPT !.use_ai = FALSE],
                                    OPENAI_AVAILABLE, NoEnv).ret

\* C4: before truncation the message is the synthesizer output unchanged
\* when it came from the remote path under conventional_commits or when
\* the prefix is empty, and otherwise prefix, one space, synthesizer output.
C4_PrefixOnce ==
    Generated =>
        prefixed.val =
            IF (synthesized.source = "remote" /\ config.conventional_commits)
                   \/ config.prefix = ""
            THEN synthesized.text
            ELSE config.prefix \o " " \o synthesized.text

C4_Witness ==
    /\ pc = "confirm"
    /\ synthesized.source = "remote"
    /\ config.conventional_commits
    /\ config.prefix = "feat:"
    /\ synthesized.text = "fix: x"
    /\ prefixed = Str("fix: x")

\* analyze_changes has returned from its multi-file part.
MultiFilePath ==
    /\ pc = "returned"
    /\ ~(Len(staged_files) = 1 /\ staged_files[1].status \in {"A", "M", "D", "R"})

\* primaryAction as C5 states it: the first of Add, Update, Remove whose
\* count is at least the number of all other entries, whatever their status.
ClaimedPrimaryAction(files) ==
    LET n(s) == CountStatus(files, s)
        others(s) == Len(files) - n(s)
    IN IF n("A") >= others("A") THEN Str("Add")
       ELSE IF n("M") >= others("M") THEN Str("Update")
       ELSE IF n("D") >= others("D") THEN Str("Remove")
       ELSE None

\* C5: in the multi-file path primaryAction is the first of Add, Update,
\* Remove whose count is >= the combined count of every other status in
\* the ChangeSet, unknown status letters included; absent when none is.
C5_PrimaryAction ==
    MultiFilePath => analysis.primary_action = ClaimedPrimaryAction(staged_files)

\* C6: in the multi-file path the message is "{primaryAction} {scope} files",
\* "{primaryAction} {N} files" or "Update {N} files", N being the number of
\* entries of the ChangeSet.
C6_Compose ==
    MultiFilePath =>
        heuristic.val =
            IF ~analysis.primary_action.isNone /\ ~analysis.scope.isNone
            THEN analysis.primary_action.val \o " " \o analysis.scope.val \o " files"
            ELSE IF ~analysis.primary_action.isNone
            THEN analysis.primary_action.val \o " " \o IntToStr(Len(staged_files)) \o " files"
            ELSE "Update " \o IntToStr(Len(staged_files)) \o " files"

\* The final path component, read off the split path.
LastComponent(path) == Last(split(path, "/"))

\* C7: a one-entry ChangeSet yields "Add", "Update", "Delete" or
\* "Rename file to" followed by the basename for A, M, D, R, whatever the
\* extension, and the multi-file result for any other status.
C7_SingleFile ==
    (pc = "returned" /\ Len(staged_files) = 1) =>
        LET f == staged_files[1]
            b == LastComponent(f.path)
        IN heuristic.val =
               CASE f.status = "A" -> "Add " \o b
                 [] f.status = "M" -> "Update " \o b
                 [] f.status = "D" -> "Delete " \o b
                 [] f.status = "R" -> "Rename file to " \o b
                 [] OTHER -> MultiFileMessage(staged_files).ret

C7_Witness ==
    /\ pc = "returned"
    /\ staged_files = <<[status |-> "R", path |-> "src/x.py"]>>
    /\ heuristic = Str("Rename file to x.py")

\* scope as C8 states it: the one extension the files with an extension
\* share, looked up in the table without regard to case.
ClaimedScope(files) ==
    LET exts == {ExtOf(files[i].path) : i \in DOMAIN files} \ {""}
    IN IF Cardinality(exts) = 1
       THEN ScopeOfExt(lower(CHOOSE e \in exts : TRUE))
       ELSE None

\* C8: scope is present exactly when the files that have an extension share
\* one extension and the table has it, case-insensitively: three Added
\* ".PY" files give "Add Python files".
C8_Scope ==
    MultiFilePath => analysis.scope = ClaimedScope(staged_files)

\* What main does after get_staged_files returns.
Downstream ==
    {"select_prefix", "categorize_changes", "analyze_changes", "generate_commit_message",
     "generate_ai_commit_message", "confirm_prompt", "commit"}

\* C9: a run whose staged diff summary is empty ends with the
\* no-staged-changes notice and a nonzero status before any of prefix
\* selection, classification, synthesis, the remote call, the prompt or a
\* commit; categorize_changes and analyze_changes only see a non-empty ChangeSet.
C9_EmptyStopsFirst ==
    /\ staged_diff = Str("") =>
          /\ pc = "exit" /\ exit_code = 1
          /\ out = <<NoticeNoStaged>>
          /\ calls \cap Downstream = {}
          /\ ~Generated /\ confirm.isNone /\ commits = <<>>
    /\ calls \cap {"categorize_changes", "analyze_changes"} # {} => staged_files # <<>>

C9_Witness ==
    /\ staged_diff = Str("")
    /\ pc = "exit"
    /\ exit_code = 1

\* C10: at most one commit, and only after a message was generated and the
\* prompt answered: 'y' commits the generated message, 'edit' the message
\* the operator entered (stripped, as every input is), any other answer
\* ends the run with the aborted notice and no commit; setup mode neither
\* generates nor commits.
C10_CommitOnce ==
    /\ Len(commits) <= 1
    /\ commits # <<>> => Generated /\ ~confirm.isNone /\ confirm.val \in {"y", "edit"}
    /\ confirm = Str("y") => commits = <<commit_message.val>>
    /\ confirm = Str("edit") => ~edited.isNone /\ commits = <<strip(edited.val)>>
    /\ (~confirm.isNone /\ confirm.val \notin {"y", "edit"}) =>
          /\ commits = <<>>
          /\ pc = "exit" /\ exit_code = 0
          /\ Last(out) = NoticeAborted
    /\ "setup_config" \in calls =>
          /\ ~Generated /\ commits = <<>>
          /\ calls \cap Downstream = {}

C10_Witness ==
    /\ pc = "exit"
    /\ Generated
    /\ confirm = Str("edit")
    /\ commits = <<"Fix typo">>

====
